---- MODULE Spec2Model ----
(***************************************************************************)
(* The order management backend: the FIX gateway's command queue and its   *)
(* worker task (app/services/fix_gateway.py), the order lifecycle it       *)
(* drives, and the HTTP handlers that create, cancel and amend orders      *)
(* (app/api.py) with the pre-trade risk check (app/services/               *)
(* risk_service.py).                                                       *)
(*                                                                         *)
(* Persisted state is the orders and executions tables.  Every handler and *)
(* the worker are asyncio coroutines: an action of the model is the code   *)
(* that runs between two awaits at which another coroutine can observe or  *)
(* change the persisted state.                                             *)
(*                                                                         *)
(* Quantities are integers: the quantities of QtyValues are multiples of 5 *)
(* so that the first lot of a partial fill, 0.4 * remaining, is exact.     *)
(***************************************************************************)
EXTENDS Integers, Sequences, FiniteSets

\* ------------------------------------------------------------------ bounds
MaxOrders == 2
MaxCancels == 1
MaxAmends == 1
MaxStarts == 2
MaxThreads == 2
MaxBusCalls == 3
MaxWsEvents == 3
MaxWsSends == 3

\* ------------------------------------------------------- program constants
QueueMaxSize == 10000
WsQueueMaxSize == 1000
NotionalUnit == 1000
DefaultMaxNotional == 1000000000
DefaultMaxOrderSize == 1000000000
SecondsPerHour == 3600
SecondsPerMinute == 60
XauRefPrice == 2000

\* ------------------------------------------------------------ input domains
QtyValues == {10, 25}
AmendQtyValues == QtyValues \cup {5}
LimitPrices == {2000}
MockPrices == {1999}
NowValues == {43200}
ClientIds == {"A"}

\* Optional values (Python None / a value).
None == <<>>
Some(v) == <<v>>
Val(x) == x[1]
NoReason == "None"

\* OrderStatus (the members the enum defines).
OrderStatus == {"NEW", "PENDING_SEND", "SENT", "PARTIALLY_FILLED", "FILLED",
                "REJECTED", "CANCELED"}

\* The statuses _process_cancel treats as terminal.
Terminal == {"FILLED", "CANCELED", "REJECTED"}

\* An editable set that lets a SENT order through.
EditableOrSent == {"NEW", "PARTIALLY_FILLED", "SENT"}

\* The statuses amend_order accepts.
Editable == {"NEW", "PARTIALLY_FILLED"}

\* A Python str is the sequence of its characters.
DefaultTradingHours == <<"0", "0", ":", "0", "0", "-", "2", "3", ":", "5", "9">>

\* The permissive limit create_order and amend_order build when the lookup
\* finds no record.  A limit's max_notional is held in units of NotionalUnit
\* (the default, 1e12, is DefaultMaxNotional * NotionalUnit).
DefaultLimit == [blocked |-> FALSE, trading_hours |-> DefaultTradingHours,
                 max_notional |-> DefaultMaxNotional,
                 max_order_size |-> DefaultMaxOrderSize]

\* What the risk-limit lookup (RiskLimitsRepository.by_client_symbol) gives
\* the handlers: no record, or a stored record.  The repository is a
\* collaborator of the handlers; they are modelled on the value its contract
\* returns.
BlockedLimit == [DefaultLimit EXCEPT !.blocked = TRUE]
RiskLimitLookups == {None, Some(BlockedLimit)}

\* The request bodies POST /orders is given.
OrderCreateRequests ==
    [clientId : ClientIds, type : {"LIMIT"}, qty : QtyValues,
     price : {Some(p) : p \in LimitPrices}]

\* The request bodies PATCH /orders/{id} is given: a new qty, a new price,
\* or neither.
OrderAmendRequests ==
    [qty : {Some(q) : q \in AmendQtyValues}, price : {None}]
    \cup [qty : {None}, price : {Some(p) : p \in LimitPrices} \cup {None}]

VARIABLES
    orders,        \* the orders table: a sequence, an order's id is its index
    executions,    \* the executions table: per order, its executions in order
    events,        \* per order, the events published about it
    queue,         \* FixGateway.queue
    tasks,         \* the worker tasks start() has created
    worker_task,   \* FixGateway.worker_task: index into tasks, 0 is None
    creating,      \* create_order calls between commit and enqueue_send
    amending,      \* amend_order calls between their read and their commit
    cancels,       \* cancel requests made since the initial state
    amends,        \* amend requests read since the initial state
    cancelRace,    \* orders with a Cancel enqueued while their Send was
                   \* queued or in its first latency
    http_errors,   \* the error responses the handlers have given, in order
    risk_results   \* per order, what validate_order returned to create_order

\* The event bus (app/services/event_bus.py) and the threads that call it.
VARIABLES
    subscribers,   \* EventBus.subscribers: per topic, the list of callbacks
    bus_lock,      \* EventBus._lock: the thread that holds it, 0 when free
    threads,       \* per thread, its stack of calls into the bus
    received,      \* which subscriber was handed an event about which client
    handles,       \* the unsubscribe functions subscribe has returned
    bus_calls      \* calls made into the bus from outside it

busVars == <<subscribers, bus_lock, threads, received, handles, bus_calls>>

\* A risk check looked at on its own: what the handler is given, and what
\* validate_order returns to it.
VARIABLES
    risk_args,     \* the request, the limit lookup's result, symbol_spec and
                   \* the time of day
    risk_ret       \* None until validate_order has returned, then its result

riskVars == <<risk_args, risk_ret>>

\* The internal reconciliation (app/services/reconciliation_service.py).
VARIABLES
    recon_report   \* None until reconcile_internal has returned, then its dict

reconVars == <<recon_report>>

\* One connection of the WebSocket endpoint (app/ws.py).
VARIABLES
    ws_queue,      \* ws_orders' queue
    ws_pending,    \* the _put calls call_soon_threadsafe has scheduled
    ws_held,       \* the event queue.get() returned, until it is sent
    ws_sent,       \* the events sent on the socket, in order
    ws_dropped,    \* the events _put dropped
    ws_arrived     \* how many events on_event has been called with

wsVars == <<ws_queue, ws_pending, ws_held, ws_sent, ws_dropped, ws_arrived>>

omsVars == <<orders, executions, events, queue, tasks, worker_task, creating,
             amending, cancels, amends, cancelRace, http_errors, risk_results>>

\* The variables the handlers and the worker leave alone, and those the bus
\* leaves alone.
nonOmsVars == <<busVars, riskVars, reconVars, wsVars>>
nonBusVars == <<omsVars, riskVars, reconVars, wsVars>>
nonRiskVars == <<omsVars, busVars, reconVars, wsVars>>
nonReconVars == <<omsVars, busVars, riskVars, wsVars>>
nonWsVars == <<omsVars, busVars, riskVars, reconVars>>

vars == <<orders, executions, events, queue, tasks, worker_task, creating,
          amending, cancels, amends, cancelRace, http_errors, risk_results,
          busVars, riskVars, reconVars, wsVars>>

OrderIdSet == 1..Len(orders)

\* --------------------------------------------------------------- risk check
Accept == [ok |-> TRUE, reason |-> NoReason]
Reject(r) == [ok |-> FALSE, reason |-> r]

\* x > m * NotionalUnit
ExceedsNotional(x, m) ==
    \/ x \div NotionalUnit > m
    \/ x \div NotionalUnit = m /\ x % NotionalUnit > 0

\* ---- str.split, int and datetime.time, as _parse_trading_hours uses them
\* s.split(sep) for a one-character sep.
RECURSIVE split(_, _)
split(s, sep) ==
    IF \A i \in 1..Len(s) : s[i] # sep THEN <<s>>
    ELSE LET i == CHOOSE i \in 1..Len(s) :
                      s[i] = sep /\ \A j \in 1..(i - 1) : s[j] # sep
         IN <<SubSeq(s, 1, i - 1)>> \o split(SubSeq(s, i + 1, Len(s)), sep)

\* s.strip(): the whitespace at both ends removed.
RECURSIVE strip(_)
strip(s) ==
    IF s = <<>> THEN s
    ELSE IF Head(s) = " " THEN strip(Tail(s))
    ELSE IF s[Len(s)] = " " THEN strip(SubSeq(s, 1, Len(s) - 1))
    ELSE s

DigitChars == <<"0", "1", "2", "3", "4", "5", "6", "7", "8", "9">>

IsDigit(c) == \E d \in 1..10 : DigitChars[d] = c

DigitValue(c) == (CHOOSE d \in 1..10 : DigitChars[d] = c) - 1

\* The value of a run of digits and underscores.
RECURSIVE DigitsValue(_, _)
DigitsValue(s, acc) ==
    IF s = <<>> THEN acc
    ELSE IF Head(s) = "_" THEN DigitsValue(Tail(s), acc)
    ELSE DigitsValue(Tail(s), acc * 10 + DigitValue(Head(s)))

\* int(x) for a str x: Some(n), or None when it raises ValueError.  Python
\* accepts surrounding whitespace, a sign, and single underscores between
\* digits.
int(x) ==
    LET s == strip(x)
        signed == s # <<>> /\ Head(s) \in {"+", "-"}
        body == IF signed THEN Tail(s) ELSE s
        wellFormed ==
            /\ body # <<>>
            /\ \A i \in 1..Len(body) : IsDigit(body[i]) \/ body[i] = "_"
            /\ body[1] # "_"
            /\ body[Len(body)] # "_"
            /\ \A i \in 1..(Len(body) - 1) : ~(body[i] = "_" /\ body[i + 1] = "_")
    IN IF ~wellFormed THEN None
       ELSE IF signed /\ Head(s) = "-" THEN Some(0 - DigitsValue(body, 0))
       ELSE Some(DigitsValue(body, 0))

\* A time of day is its number of seconds since midnight.
\* datetime.time(hour, minute): Some(t), or None when it raises ValueError.
time_cls(hour, minute) ==
    IF hour \in 0..23 /\ minute \in 0..59
       THEN Some(hour * SecondsPerHour + minute * SecondsPerMinute)
       ELSE None

\* What _parse_trading_hours returns when anything in it raises.
FailClosedWindow == <<Val(time_cls(23, 59)), Val(time_cls(0, 0))>>

\* _parse_trading_hours: the pair (start, end).
parse_trading_hours(th) ==
    LET halves == split(th, "-")
    IN IF Len(halves) # 2 THEN FailClosedWindow
       ELSE LET start_s == split(halves[1], ":")
                end_s == split(halves[2], ":")
            IN IF Len(start_s) # 2 \/ Len(end_s) # 2 THEN FailClosedWindow
               ELSE LET sh == int(start_s[1])
                        sm == int(start_s[2])
                        eh == int(end_s[1])
                        em == int(end_s[2])
                    IN IF None \in {sh, sm, eh, em} THEN FailClosedWindow
                       ELSE LET start_t == time_cls(Val(sh), Val(sm))
                                end_t == time_cls(Val(eh), Val(em))
                            IN IF None \in {start_t, end_t} THEN FailClosedWindow
                               ELSE <<Val(start_t), Val(end_t)>>

\* Values of RiskLimit.trading_hours: "09:00-16:00", "00:00-23:59",
\* "9:00-17:00", "0_9:00-1_6:00", " 09:00 - 16:00 ", "", "closed", "09:00",
\* "25:00-26:00", "09:60-16:00", "09-16", "09:00-16:00-".
TradingHoursStrings ==
    {
      <<"0", "9", ":", "0", "0", "-", "1", "6", ":", "0", "0">>,
      <<"0", "0", ":", "0", "0", "-", "2", "3", ":", "5", "9">>,
      <<"9", ":", "0", "0", "-", "1", "7", ":", "0", "0">>,
      <<"0", "_", "9", ":", "0", "0", "-", "1", "_", "6", ":", "0", "0">>,
      <<" ", "0", "9", ":", "0", "0", " ", "-", " ", "1", "6", ":", "0",
        "0", " ">>,
      <<>>,
      <<"c", "l", "o", "s", "e", "d">>,
      <<"0", "9", ":", "0", "0">>,
      <<"2", "5", ":", "0", "0", "-", "2", "6", ":", "0", "0">>,
      <<"0", "9", ":", "6", "0", "-", "1", "6", ":", "0", "0">>,
      <<"0", "9", "-", "1", "6">>,
      <<"0", "9", ":", "0", "0", "-", "1", "6", ":", "0", "0", "-">>
    }

\* _parse_trading_hours of each of these strings.
ParsedTradingHours == [th \in TradingHoursStrings |-> parse_trading_hours(th)]

\* validate_order with the size check made before the notional check.
validate_order_size_first(req, client_risk, symbol_spec, now) ==
    LET hours == ParsedTradingHours[client_risk.trading_hours]
    IN IF req.qty <= 0 THEN Reject("INVALID_QTY")
       ELSE IF req.type = "LIMIT" /\ req.price = None THEN Reject("PRICE_REQUIRED")
       ELSE IF req.type = "MARKET" /\ req.price # None THEN Reject("PRICE_NOT_ALLOWED")
       ELSE IF client_risk.blocked THEN Reject("SYMBOL_BLOCKED")
       ELSE IF ~(hours[1] <= now /\ now <= hours[2])
            THEN Reject("OUTSIDE_TRADING_HOURS")
       ELSE IF req.price = None /\ symbol_spec.ref_price = None
            THEN Reject("MISSING_REFERENCE_PRICE")
       ELSE LET price == IF req.price = None THEN Val(symbol_spec.ref_price)
                         ELSE Val(req.price)
            IN IF req.qty > client_risk.max_order_size
                  THEN Reject("ORDER_SIZE_LIMIT_EXCEEDED")
               ELSE IF ExceedsNotional(req.qty * price, client_risk.max_notional)
                  THEN Reject("NOTIONAL_LIMIT_EXCEEDED")
               ELSE Accept

\* validate_order, with the time of day datetime.now() gives it.
validate_order(req, client_risk, symbol_spec, now) ==
    LET hours == ParsedTradingHours[client_risk.trading_hours]
    IN IF req.qty <= 0 THEN Reject("INVALID_QTY")
       ELSE IF req.type = "LIMIT" /\ req.price = None THEN Reject("PRICE_REQUIRED")
       ELSE IF req.type = "MARKET" /\ req.price # None THEN Reject("PRICE_NOT_ALLOWED")
       ELSE IF client_risk.blocked THEN Reject("SYMBOL_BLOCKED")
       ELSE IF ~(hours[1] <= now /\ now <= hours[2])
            THEN Reject("OUTSIDE_TRADING_HOURS")
       ELSE IF req.price = None /\ symbol_spec.ref_price = None
            THEN Reject("MISSING_REFERENCE_PRICE")
       ELSE LET price == IF req.price = None THEN Val(symbol_spec.ref_price)
                         ELSE Val(req.price)
            IN IF ExceedsNotional(req.qty * price, client_risk.max_notional)
                  THEN Reject("NOTIONAL_LIMIT_EXCEEDED")
               ELSE IF req.qty > client_risk.max_order_size
                  THEN Reject("ORDER_SIZE_LIMIT_EXCEEDED")
               ELSE Accept

\* symbol_spec as create_order and amend_order build it for an XAU symbol.
SymbolSpec == [ref_price |-> Some(XauRefPrice)]

ResolveLimit(found) == IF found = None THEN DefaultLimit ELSE Val(found)

\* ------------------------------------------------------------------ events
Publish(ev, id, type, status) ==
    [ev EXCEPT ![id] = Append(@, [type |-> type, status |-> status])]

\* ------------------------------------------------------------ the event bus
\* The clients whose orders events are about.
BusClients == {"A", "B"}

\* One topic for every client's orders.
SharedTopic(client_id) == "orders"

\* f"orders.{order.client_id}" (the gateway) and f"orders.{client_id}" (the
\* WebSocket endpoint).
Topic(client_id) == "orders." \o client_id

Topics == {Topic(c) : c \in BusClients}

ThreadIds == 1..MaxThreads

\* EventBus.__init__, with no thread inside the bus.
BusIdle ==
    /\ subscribers = [tp \in Topics |-> <<>>]
    /\ bus_lock = 0
    /\ threads = [t \in ThreadIds |-> <<>>]
    /\ received = {}
    /\ handles = {}
    /\ bus_calls = 0

\* No risk check is looked at on its own.
RiskIdle == risk_args = None /\ risk_ret = None

\* No reconciliation has been run.
ReconIdle == recon_report = None

\* No WebSocket connection has received anything.
WsIdle ==
    /\ ws_queue = <<>>
    /\ ws_pending = <<>>
    /\ ws_held = None
    /\ ws_sent = <<>>
    /\ ws_dropped = {}
    /\ ws_arrived = 0

\* -------------------------------------------------------------------- Init
\* No order has been created, no worker task started.
OmsIdle ==
    /\ orders = <<>>
    /\ executions = <<>>
    /\ events = <<>>
    /\ queue = <<>>
    /\ tasks = <<>>
    /\ worker_task = 0
    /\ creating = {}
    /\ amending = {}
    /\ cancels = 0
    /\ amends = 0
    /\ cancelRace = {}
    /\ http_errors = <<>>
    /\ risk_results = <<>>

Init ==
    /\ OmsIdle
    /\ BusIdle
    /\ RiskIdle
    /\ ReconIdle
    /\ WsIdle


\* ------------------------------------------------------------ the queue
SendOrderEvent(id) == [kind |-> "Send", order_id |-> id]
CancelOrderEvent(id) == [kind |-> "Cancel", order_id |-> id]

\* put_nowait on a queue of any length (no maxsize).
put_unbounded(q, evt) == Append(q, evt)

\* asyncio.Queue.put_nowait: the queue after the call (unchanged when it
\* raises QueueFull).
put_nowait(q, evt) == IF Len(q) >= QueueMaxSize THEN q ELSE Append(q, evt)

\* asyncio.Queue.full()
QueueFull(q) == Len(q) >= QueueMaxSize

\* An error response of a handler: an HTTPException, or (code 500) an
\* exception the handler does not catch.
HttpError(call, id, code, detail) ==
    [call |-> call, id |-> id, code |-> code, detail |-> detail]

\* The RuntimeError enqueue_send and enqueue_cancel raise on QueueFull; the
\* handlers do not catch it.
CapacityError(call, id) == HttpError(call, id, 500, "FIX gateway queue is full")

\* http_errors after an enqueue on queue q by a handler.
AfterEnqueue(errs, q, call, id) ==
    IF QueueFull(q) THEN Append(errs, CapacityError(call, id)) ELSE errs

\* ------------------------------------------------------------ worker tasks
IdleTask == [state |-> "idle", kind |-> "none",
             oid |-> 0, pc |-> "queue", remaining |-> 0, px |-> 0]

\* asyncio.Task.done()
Done(t) == t.state \in {"cancelled", "failed"}

TaskIds == 1..Len(tasks)

\* A Send for the order is queued, or a live worker holds it and has not
\* passed the first latency.
SendNotYetSent(id) ==
    \/ \E i \in 1..Len(queue) : queue[i] = SendOrderEvent(id)
    \/ \E w \in TaskIds :
          /\ tasks[w].state = "busy" /\ tasks[w].kind = "Send"
          /\ tasks[w].oid = id /\ tasks[w].pc \in {"get", "sleep1"}

\* ---------------------------------------------------------- POST /orders
NewOrder(payload, status, reason) ==
    [client_id |-> payload.clientId, type |-> payload.type, qty |-> payload.qty,
     price |-> payload.price, status |-> status, cum_qty |-> 0,
     avg_px |-> None, reject_reason |-> reason]

\* create_order going on to enqueue_send for a rejected order too.
CreateOrderEnqueuesRejected ==
    /\ Len(orders) < MaxOrders
    /\ \E payload \in OrderCreateRequests, found \in RiskLimitLookups, now \in NowValues :
         LET res == validate_order(payload, ResolveLimit(found), SymbolSpec, now)
             id == Len(orders) + 1
         IN /\ risk_results' = Append(risk_results, res)
            /\ creating' = creating \cup {id}
            /\ IF ~res.ok
               THEN /\ orders' = Append(orders, NewOrder(payload, "REJECTED", res.reason))
                    /\ events' = Append(events, <<[type |-> "ORDER_REJECT", status |-> "REJECTED"]>>)
               ELSE /\ orders' = Append(orders, NewOrder(payload, "NEW", NoReason))
                    /\ events' = Append(events, <<>>)
    /\ executions' = Append(executions, <<>>)
    /\ UNCHANGED <<queue, tasks, worker_task, amending, cancels, amends, cancelRace,
                   http_errors, nonOmsVars>>

\* create_order up to its commit: the risk check, then the order persisted
\* REJECTED (and ORDER_REJECT published) or NEW.
CreateOrder ==
    /\ Len(orders) < MaxOrders
    /\ \E payload \in OrderCreateRequests, found \in RiskLimitLookups, now \in NowValues :
         LET res == validate_order(payload, ResolveLimit(found), SymbolSpec, now)
             id == Len(orders) + 1
         IN /\ risk_results' = Append(risk_results, res)
            /\ IF ~res.ok
               THEN /\ orders' = Append(orders, NewOrder(payload, "REJECTED", res.reason))
                    /\ events' = Append(events, <<[type |-> "ORDER_REJECT", status |-> "REJECTED"]>>)
                    /\ creating' = creating
               ELSE /\ orders' = Append(orders, NewOrder(payload, "NEW", NoReason))
                    /\ events' = Append(events, <<>>)
                    /\ creating' = creating \cup {id}
    /\ executions' = Append(executions, <<>>)
    /\ UNCHANGED <<queue, tasks, worker_task, amending, cancels, amends, cancelRace,
                   http_errors, nonOmsVars>>

\* create_order after its commit: enqueue_send.
CreateEnqueue ==
    \E id \in creating :
        /\ queue' = put_nowait(queue, SendOrderEvent(id))
        /\ http_errors' = AfterEnqueue(http_errors, queue, "create_order", id)
        /\ creating' = creating \ {id}
        /\ UNCHANGED <<orders, executions, events, tasks, worker_task, amending,
                       cancels, amends, cancelRace, risk_results, nonOmsVars>>

\* ------------------------------------------------ POST /orders/{id}/cancel
\* cancel_order without the test of line 140: a Cancel is enqueued for
\* whatever id the request names.
CancelOrderUnchecked ==
    /\ cancels < MaxCancels
    /\ \E id \in 1..MaxOrders :
         /\ queue' = put_nowait(queue, CancelOrderEvent(id))
         /\ http_errors' = AfterEnqueue(http_errors, queue, "cancel_order", id)
         /\ cancelRace' = IF id \in OrderIdSet /\ SendNotYetSent(id) /\ ~QueueFull(queue)
                          THEN cancelRace \cup {id} ELSE cancelRace
    /\ cancels' = cancels + 1
    /\ UNCHANGED <<orders, executions, events, tasks, worker_task, creating,
                   amending, amends, risk_results, nonOmsVars>>

\* An unknown order id is answered 404 and nothing is enqueued.
CancelOrder ==
    /\ cancels < MaxCancels
    /\ \E id \in 1..MaxOrders :
         IF id \notin OrderIdSet
         THEN /\ http_errors' = Append(http_errors,
                                       HttpError("cancel_order", id, 404, "Order not found"))
              /\ UNCHANGED <<queue, cancelRace>>
         ELSE /\ queue' = put_nowait(queue, CancelOrderEvent(id))
              /\ http_errors' = AfterEnqueue(http_errors, queue, "cancel_order", id)
              /\ cancelRace' = IF SendNotYetSent(id) /\ ~QueueFull(queue)
                               THEN cancelRace \cup {id} ELSE cancelRace
    /\ cancels' = cancels + 1
    /\ UNCHANGED <<orders, executions, events, tasks, worker_task, creating,
                   amending, amends, risk_results, nonOmsVars>>

\* ------------------------------------------------------ PATCH /orders/{id}
\* amend_order's checks on the order it has read.
AmendChecksPass(o, payload) ==
    /\ o.status \in Editable
    /\ ~(payload.qty = None /\ payload.price = None)
    /\ ~(payload.qty # None /\ Val(payload.qty) < o.cum_qty)

\* The detail of the HTTPException(400) a failed check raises, in the order
\* of the checks.
AmendCheckDetail(o, payload) ==
    IF o.status \notin Editable THEN "Order not editable in current status"
    ELSE IF payload.qty = None /\ payload.price = None THEN "No fields to amend"
    ELSE "qty cannot be less than filled quantity"

\* amend_order up to the awaits before its commit: the order is read and
\* checked; an unknown id or a failed check ends the call with an error
\* response.
AmendRead ==
    /\ amends < MaxAmends
    /\ \E id \in 1..MaxOrders, payload \in OrderAmendRequests :
         IF id \notin OrderIdSet
         THEN /\ http_errors' = Append(http_errors,
                                       HttpError("amend_order", id, 404, "Order not found"))
              /\ amending' = amending
         ELSE IF ~AmendChecksPass(orders[id], payload)
         THEN /\ http_errors' = Append(http_errors,
                                       HttpError("amend_order", id, 400,
                                                 AmendCheckDetail(orders[id], payload)))
              /\ amending' = amending
         ELSE /\ amending' = amending \cup {[id |-> id, payload |-> payload, read |-> orders[id]]}
              /\ http_errors' = http_errors
    /\ amends' = amends + 1
    /\ UNCHANGED <<orders, executions, events, queue, tasks, worker_task, creating,
                   cancels, cancelRace, risk_results, nonOmsVars>>

\* The commit writing back every attribute of the object the call read.
AmendedRowWholeObject(row, a) ==
    [a.read EXCEPT
       !.qty = IF a.payload.qty # None THEN Val(a.payload.qty) ELSE @,
       !.price = IF a.payload.price # None THEN a.payload.price ELSE @]

\* The row after amend_order's commit: the UPDATE carries the attributes the
\* call changed on the object it read.
AmendedRow(row, a) ==
    [row EXCEPT
       !.qty = IF a.payload.qty # None /\ Val(a.payload.qty) # a.read.qty
               THEN Val(a.payload.qty) ELSE @,
       !.price = IF a.payload.price # None /\ a.payload.price # a.read.price
                 THEN a.payload.price ELSE @]

\* amend_order committing qty/price before the risk re-validation decides.
AmendCommitBeforeValidation ==
    \E a \in amending, found \in RiskLimitLookups, now \in NowValues :
        LET tmp == [qty |-> IF a.payload.qty # None THEN Val(a.payload.qty) ELSE a.read.qty,
                    price |-> IF a.payload.price # None THEN a.payload.price ELSE a.read.price,
                    type |-> a.read.type]
            res == validate_order(tmp, ResolveLimit(found), SymbolSpec, now)
        IN /\ amending' = amending \ {a}
           /\ orders' = [orders EXCEPT ![a.id] = AmendedRow(@, a)]
           /\ IF res.ok
              THEN /\ events' = Publish(events, a.id, "ORDER_UPDATE", a.read.status)
                   /\ http_errors' = http_errors
              ELSE /\ http_errors' = Append(http_errors,
                                            HttpError("amend_order", a.id, 400, res.reason))
                   /\ events' = events
           /\ UNCHANGED <<executions, queue, tasks, worker_task, creating, cancels,
                          amends, cancelRace, risk_results, nonOmsVars>>

\* amend_order from the risk re-validation on: the commit of qty/price and
\* the ORDER_UPDATE built from the object the call read.
AmendCommit ==
    \E a \in amending, found \in RiskLimitLookups, now \in NowValues :
        LET tmp == [qty |-> IF a.payload.qty # None THEN Val(a.payload.qty) ELSE a.read.qty,
                    price |-> IF a.payload.price # None THEN a.payload.price ELSE a.read.price,
                    type |-> a.read.type]
            res == validate_order(tmp, ResolveLimit(found), SymbolSpec, now)
        IN /\ amending' = amending \ {a}
           /\ IF res.ok
              THEN /\ orders' = [orders EXCEPT ![a.id] = AmendedRow(@, a)]
                   /\ events' = Publish(events, a.id, "ORDER_UPDATE", a.read.status)
                   /\ http_errors' = http_errors
              ELSE /\ http_errors' = Append(http_errors,
                                            HttpError("amend_order", a.id, 400, res.reason))
                   /\ UNCHANGED <<orders, events>>
           /\ UNCHANGED <<executions, queue, tasks, worker_task, creating, cancels,
                          amends, cancelRace, risk_results, nonOmsVars>>


\* ------------------------------------------------- FixGateway.start / stop
\* start() without its guard (a second live worker).
StartUnguarded ==
    /\ Len(tasks) < MaxStarts
    /\ tasks' = Append(tasks, IdleTask)
    /\ worker_task' = Len(tasks) + 1
    /\ UNCHANGED <<orders, executions, events, queue, creating, amending, cancels,
                   amends, cancelRace, http_errors, risk_results, nonOmsVars>>

\* start(): a worker task is created when there is none or the last one is
\* done.
Start ==
    /\ Len(tasks) < MaxStarts
    /\ IF worker_task = 0 \/ Done(tasks[worker_task])
       THEN /\ tasks' = Append(tasks, IdleTask)
            /\ worker_task' = Len(tasks) + 1
       ELSE UNCHANGED <<tasks, worker_task>>
    /\ UNCHANGED <<orders, executions, events, queue, creating, amending, cancels,
                   amends, cancelRace, http_errors, risk_results, nonOmsVars>>

EndedTask(how) == [IdleTask EXCEPT !.state = how]

\* stop(): worker_task.cancel() on a task that is not done, then the await
\* of the task: the task gets CancelledError at the await it is suspended in
\* and ends.  Nothing the task does lies between the two, and start() finds
\* the task not done until it has ended.
Stop ==
    /\ worker_task # 0
    /\ ~Done(tasks[worker_task])
    /\ tasks' = [tasks EXCEPT ![worker_task] = EndedTask("cancelled")]
    /\ UNCHANGED <<orders, executions, events, queue, worker_task, creating,
                   amending, cancels, amends, cancelRace, http_errors, risk_results, nonOmsVars>>

\* ------------------------------------------------------ FixGateway._worker
Running(w, kind, pc) ==
    /\ tasks[w].state = "busy"
    /\ tasks[w].kind = kind
    /\ tasks[w].pc = pc

\* The task goes back to `await self.queue.get()`.
Return(w) == tasks' = [tasks EXCEPT ![w] = IdleTask]

Goto(w, pc) == tasks' = [tasks EXCEPT ![w].pc = pc]

\* queue.get() of a last-in first-out queue: the newest command is taken.
WorkerGetNewest(w) ==
    /\ tasks[w].state = "idle"
    /\ queue # <<>>
    /\ queue' = SubSeq(queue, 1, Len(queue) - 1)
    /\ tasks' = [tasks EXCEPT ![w] = [IdleTask EXCEPT !.state = "busy",
                                         !.kind = queue[Len(queue)].kind,
                                         !.oid = queue[Len(queue)].order_id,
                                         !.pc = "get"]]
    /\ UNCHANGED <<orders, executions, events, worker_task, creating, amending,
                   cancels, amends, cancelRace, http_errors, risk_results, nonOmsVars>>

\* evt = await self.queue.get()
WorkerGet(w) ==
    /\ tasks[w].state = "idle"
    /\ queue # <<>>
    /\ queue' = Tail(queue)
    /\ tasks' = [tasks EXCEPT ![w] = [IdleTask EXCEPT !.state = "busy",
                                         !.kind = Head(queue).kind,
                                         !.oid = Head(queue).order_id,
                                         !.pc = "get"]]
    /\ UNCHANGED <<orders, executions, events, worker_task, creating, amending,
                   cancels, amends, cancelRace, http_errors, risk_results, nonOmsVars>>

\* ------------------------------------------------ FixGateway._process_send
\* Line 98 builds the tuple (OrderStatus.CANCELED.value,
\* OrderStatus.CANCEL_REQUESTED.value).  OrderStatus defines no member
\* CANCEL_REQUESTED, so the lookup raises AttributeError; _worker has no
\* except clause, so the exception ends the worker task.
SendRaise(w) ==
    /\ Running(w, "Send", "get")
    /\ tasks[w].oid \in OrderIdSet
    /\ tasks' = [tasks EXCEPT ![w] = EndedTask("failed")]
    /\ UNCHANGED <<orders, executions, events, queue, worker_task, creating,
                   amending, cancels, amends, cancelRace, http_errors, risk_results, nonOmsVars>>

\* The cancel test on the status named CANCEL_REQUESTED alone.
CancelSeenRequestedOnly(o) == o.status = "CANCEL_REQUESTED"

\* The cancel test the Send path repeats (lines 98, 113, 130, 175), for an
\* OrderStatus that defines the member it names: CANCEL_REQUESTED is a
\* status no write path stores, so the test is on CANCELED.  SendStart and
\* the steps after it are the Send path as written past that test.
CancelSeen(o) == o.status = "CANCELED"

\* Lines 92-107: load the order, test for a cancel, PENDING_SEND, commit,
\* publish.
SendStart(w) ==
    /\ Running(w, "Send", "get")
    /\ LET id == tasks[w].oid
       IN IF id \notin OrderIdSet \/ CancelSeen(orders[id])
          THEN /\ Return(w)
               /\ UNCHANGED <<orders, events>>
          ELSE /\ orders' = [orders EXCEPT ![id].status = "PENDING_SEND"]
               /\ events' = Publish(events, id, "ORDER_UPDATE", "PENDING_SEND")
               /\ Goto(w, "sleep1")
    /\ UNCHANGED <<executions, queue, worker_task, creating, amending, cancels,
                   amends, cancelRace, http_errors, risk_results, nonOmsVars>>

\* Lines 109-126: after the first latency, refresh, test for a cancel, SENT,
\* commit, publish, remaining.
SendAfterLatency(w) ==
    /\ Running(w, "Send", "sleep1")
    /\ LET id == tasks[w].oid
           o == orders[id]
           remaining == o.qty - o.cum_qty
       IN IF CancelSeen(o)
          THEN /\ Return(w)
               /\ UNCHANGED <<orders, events>>
          ELSE /\ orders' = [orders EXCEPT ![id].status = "SENT"]
               /\ events' = Publish(events, id, "ORDER_UPDATE", "SENT")
               /\ IF remaining <= 0
                  THEN Return(w)
                  ELSE tasks' = [tasks EXCEPT ![w].pc = "refresh2",
                                              ![w].remaining = remaining]
    /\ UNCHANGED <<executions, queue, worker_task, creating, amending, cancels,
                   amends, cancelRace, http_errors, risk_results, nonOmsVars>>

\* Lines 129-144: refresh, test for a cancel, and the 10% venue reject.
SendReject(w) ==
    /\ Running(w, "Send", "refresh2")
    /\ LET id == tasks[w].oid
           o == orders[id]
       IN IF CancelSeen(o)
          THEN UNCHANGED <<orders, events>>
          ELSE /\ orders' = [orders EXCEPT
                               ![id].status = "REJECTED",
                               ![id].reject_reason =
                                   IF o.reject_reason = NoReason
                                   THEN "FIX_REJECT" ELSE o.reject_reason]
               /\ events' = Publish(Publish(events, id, "ORDER_UPDATE", "REJECTED"),
                                    id, "ORDER_REJECT", "REJECTED")
    /\ Return(w)
    /\ UNCHANGED <<executions, queue, worker_task, creating, amending, cancels,
                   amends, cancelRace, http_errors, risk_results, nonOmsVars>>

\* lot1 = remaining * (0.4 if partial else 1.0)
Lot1(remaining, partial) == IF partial THEN (2 * remaining) \div 5 ELSE remaining

\* px = order.price or self._mock_market_px(order.symbol)
FillPx(o, mock) == IF o.price = None \/ Val(o.price) = 0 THEN mock ELSE Val(o.price)

\* The volume-weighted average after a lot (lines 154-158, 182-186).
AvgPx(o, px, lot) ==
    LET prev_cum == o.cum_qty
        denom == prev_cum + lot
        old == IF o.avg_px = None THEN 0 ELSE Val(o.avg_px)
    IN IF denom = 0 THEN 0 ELSE (old * prev_cum + px * lot) \div denom

\* AddLot with the filled quantity overwritten by the lot instead of added.
AddLotOverwrites(o, px, lot) ==
    [o EXCEPT !.cum_qty = lot, !.avg_px = Some(AvgPx(o, px, lot))]

\* AddLot with avg_px left as it was.
AddLotKeepsAvgPx(o, px, lot) == [o EXCEPT !.cum_qty = o.cum_qty + lot]

\* The order row after a lot is added to it (cum_qty and avg_px).
AddLot(o, px, lot) ==
    [o EXCEPT !.cum_qty = o.cum_qty + lot, !.avg_px = Some(AvgPx(o, px, lot))]

Execution(lot, px) == [exec_qty |-> lot, exec_px |-> px]

\* Lines 129-167 without the reject: refresh, test for a cancel, the first
\* lot with its Execution, commit, publish.
SendFirstFill(w) ==
    /\ Running(w, "Send", "refresh2")
    /\ \E partial \in BOOLEAN, mock \in MockPrices :
         LET id == tasks[w].oid
             o == orders[id]
             lot1 == Lot1(tasks[w].remaining, partial)
             px == FillPx(o, mock)
             filled == AddLot(o, px, lot1)
             after == [filled EXCEPT !.status = IF filled.cum_qty < o.qty
                                                THEN "PARTIALLY_FILLED" ELSE "FILLED"]
         IN IF CancelSeen(o)
            THEN /\ Return(w)
                 /\ UNCHANGED <<orders, executions, events>>
            ELSE /\ orders' = [orders EXCEPT ![id] = after]
                 /\ executions' = [executions EXCEPT ![id] = Append(@, Execution(lot1, px))]
                 /\ events' = Publish(events, id, "ORDER_UPDATE", after.status)
                 /\ IF after.cum_qty < after.qty
                    THEN tasks' = [tasks EXCEPT ![w].pc = "sleep2", ![w].px = px,
                                                ![w].remaining = 0]
                    ELSE Return(w)
    /\ UNCHANGED <<queue, worker_task, creating, amending, cancels, amends, cancelRace, http_errors, risk_results, nonOmsVars>>

\* Lines 171-191: after the second latency, refresh, test for a cancel, the
\* rest as a second Execution, FILLED, commit, publish.
SendSecondFill(w) ==
    /\ Running(w, "Send", "sleep2")
    /\ LET id == tasks[w].oid
           o == orders[id]
           lot2 == o.qty - o.cum_qty
           px == tasks[w].px
           after == [AddLot(o, px, lot2) EXCEPT !.status = "FILLED"]
       IN IF CancelSeen(o)
          THEN UNCHANGED <<orders, executions, events>>
          ELSE /\ orders' = [orders EXCEPT ![id] = after]
               /\ executions' = [executions EXCEPT ![id] = Append(@, Execution(lot2, px))]
               /\ events' = Publish(events, id, "ORDER_UPDATE", "FILLED")
    /\ Return(w)
    /\ UNCHANGED <<queue, worker_task, creating, amending, cancels, amends, cancelRace, http_errors, risk_results, nonOmsVars>>

\* ---------------------------------------------- FixGateway._process_cancel
\* Lines 195-207 with the terminal test removed.
CancelStartUnchecked(w) ==
    /\ Running(w, "Cancel", "get")
    /\ IF tasks[w].oid \notin OrderIdSet THEN Return(w) ELSE Goto(w, "csleep")
    /\ UNCHANGED <<orders, executions, events, queue, worker_task, creating,
                   amending, cancels, amends, cancelRace, http_errors, risk_results, nonOmsVars>>

\* Lines 195-207 with an ORDER_UPDATE published when a terminal order ends
\* the command.
CancelStartAcks(w) ==
    /\ Running(w, "Cancel", "get")
    /\ IF tasks[w].oid \notin OrderIdSet
       THEN Return(w) /\ events' = events
       ELSE IF orders[tasks[w].oid].status \in Terminal
       THEN /\ Return(w)
            /\ events' = Publish(events, tasks[w].oid, "ORDER_UPDATE",
                                 orders[tasks[w].oid].status)
       ELSE Goto(w, "csleep") /\ events' = events
    /\ UNCHANGED <<orders, executions, queue, worker_task, creating,
                   amending, cancels, amends, cancelRace, http_errors, risk_results, nonOmsVars>>

\* Lines 195-207 without the return of lines 196-198 for an absent order.
CancelStartAbsentGoesOn(w) ==
    /\ Running(w, "Cancel", "get")
    /\ IF tasks[w].oid \in OrderIdSet /\ orders[tasks[w].oid].status \in Terminal
       THEN Return(w)
       ELSE Goto(w, "csleep")
    /\ UNCHANGED <<orders, executions, events, queue, worker_task, creating,
                   amending, cancels, amends, cancelRace, http_errors, risk_results, nonOmsVars>>

\* Lines 195-207: load the order; an absent or terminal order ends the
\* command.
CancelStart(w) ==
    /\ Running(w, "Cancel", "get")
    /\ IF tasks[w].oid \notin OrderIdSet \/ orders[tasks[w].oid].status \in Terminal
       THEN Return(w)
       ELSE Goto(w, "csleep")
    /\ UNCHANGED <<orders, executions, events, queue, worker_task, creating,
                   amending, cancels, amends, cancelRace, http_errors, risk_results, nonOmsVars>>

\* Lines 209-214 without the publish of line 214.
CancelCommitUnpublished(w) ==
    /\ Running(w, "Cancel", "csleep")
    /\ orders' = [orders EXCEPT ![tasks[w].oid].status = "CANCELED"]
    /\ Return(w)
    /\ UNCHANGED <<executions, events, queue, worker_task, creating, amending, cancels,
                   amends, cancelRace, http_errors, risk_results, nonOmsVars>>

\* Lines 209-214: after the latency, CANCELED, commit, publish.
CancelCommit(w) ==
    /\ Running(w, "Cancel", "csleep")
    /\ orders' = [orders EXCEPT ![tasks[w].oid].status = "CANCELED"]
    /\ events' = Publish(events, tasks[w].oid, "ORDER_UPDATE", "CANCELED")
    /\ Return(w)
    /\ UNCHANGED <<executions, queue, worker_task, creating, amending, cancels,
                   amends, cancelRace, http_errors, risk_results, nonOmsVars>>

\* A step of worker task w.
WorkerStep(w) ==
    \/ WorkerGet(w)
    \/ SendRaise(w)
    \/ SendStart(w)
    \/ SendAfterLatency(w)
    \/ SendReject(w)
    \/ SendFirstFill(w)
    \/ SendSecondFill(w)
    \/ CancelStart(w)
    \/ CancelCommit(w)

Next ==
    \/ CreateOrder
    \/ CreateEnqueue
    \/ CancelOrder
    \/ AmendRead
    \/ AmendCommit
    \/ Start
    \/ Stop
    \/ \E w \in TaskIds : WorkerGet(w)
    \/ \E w \in TaskIds : SendRaise(w)
    \/ \E w \in TaskIds : SendStart(w)
    \/ \E w \in TaskIds : SendAfterLatency(w)
    \/ \E w \in TaskIds : SendReject(w)
    \/ \E w \in TaskIds : SendFirstFill(w)
    \/ \E w \in TaskIds : SendSecondFill(w)
    \/ \E w \in TaskIds : CancelStart(w)
    \/ \E w \in TaskIds : CancelCommit(w)

Spec == Init /\ [][Next]_vars

\* The event loop runs a task that can run: every step of a worker task and
\* the rest of a create_order call is taken once it stays possible.  Requests
\* and start()/stop() calls come from outside and need not come.
FairSpec ==
    /\ Spec
    /\ WF_vars(\E w \in TaskIds : WorkerStep(w))
    /\ WF_vars(CreateEnqueue)
    /\ WF_vars(AmendCommit)

\* ------------------------------------------------------ calls into the bus
\* What a subscribed callback does when it is called with an event: "put"
\* is the WebSocket endpoint's on_event, which hands the event to its
\* connection; the others raise, or call back into the bus (unsubscribe
\* themselves, subscribe one more callback, publish an event of their own).
CallbackKinds == {"put", "raise", "unsubscribe", "subscribe", "publish"}

\* The callbacks that get subscribed, each for the client it serves.
BusCallbacks ==
    [client : BusClients, does : {"put"}]
    \cup [client : {"A"}, does : CallbackKinds \ {"put"}]

OrderEvent(client_id, type) == [client |-> client_id, type |-> type]

NoCallback == [client |-> "", does |-> ""]
NoEvent == [client |-> "", type |-> ""]

\* A call of subscribe, _unsubscribe or publish that has not yet entered
\* `with self._lock`.  callbacks, i and invoked are publish's local list, its
\* position in the for loop, and the callbacks the loop has called.
Frame(op, topic, cb, event) ==
    [op |-> op, topic |-> topic, cb |-> cb, event |-> event, pc |-> "acquire",
     callbacks |-> <<>>, i |-> 0, invoked |-> <<>>]

\* The call thread t is in.
Top(t) == threads[t][Len(threads[t])]

InBus(t, op, pc) == threads[t] # <<>> /\ Top(t).op = op /\ Top(t).pc = pc

Call(t, frame) == threads' = [threads EXCEPT ![t] = Append(@, frame)]

SetTop(t, frame) == threads' = [threads EXCEPT ![t][Len(threads[t])] = frame]

\* The stack after its top call has returned: a call made by a callback
\* returns into the callback, which returns to the for loop that called it.
Returned(stack) ==
    LET rest == SubSeq(stack, 1, Len(stack) - 1)
    IN IF rest = <<>> THEN rest
       ELSE [rest EXCEPT ![Len(rest)].pc = "deliver", ![Len(rest)].i = @ + 1]

\* list.remove(x) on a list that holds x: the first occurrence goes.
RECURSIVE RemoveFirst(_, _)
RemoveFirst(seq, x) ==
    IF seq = <<>> THEN <<>>
    ELSE IF Head(seq) = x THEN Tail(seq)
    ELSE <<Head(seq)>> \o RemoveFirst(Tail(seq), x)

\* ws_orders subscribes its on_event to the topic of its client.
CallSubscribe(t) ==
    /\ threads[t] = <<>>
    /\ bus_calls < MaxBusCalls
    /\ \E cb \in BusCallbacks : Call(t, Frame("subscribe", Topic(cb.client), cb, NoEvent))
    /\ bus_calls' = bus_calls + 1
    /\ UNCHANGED <<subscribers, bus_lock, received, handles, nonBusVars>>

\* ws_orders calls the function subscribe returned (any such function, any
\* number of times).
CallUnsubscribe(t) ==
    /\ threads[t] = <<>>
    /\ bus_calls < MaxBusCalls
    /\ \E h \in handles : Call(t, Frame("unsubscribe", h.topic, h.cb, NoEvent))
    /\ bus_calls' = bus_calls + 1
    /\ UNCHANGED <<subscribers, bus_lock, received, handles, nonBusVars>>

\* The gateway publishes an event about an order of client c.
CallPublish(t) ==
    /\ threads[t] = <<>>
    /\ bus_calls < MaxBusCalls
    /\ \E c \in BusClients :
          Call(t, Frame("publish", Topic(c), NoCallback, OrderEvent(c, "ORDER_UPDATE")))
    /\ bus_calls' = bus_calls + 1
    /\ UNCHANGED <<subscribers, bus_lock, received, handles, nonBusVars>>

\* `with self._lock:` entered (threading.Lock: not reentrant).
Acquire(t) ==
    /\ threads[t] # <<>>
    /\ Top(t).pc = "acquire"
    /\ bus_lock = 0
    /\ bus_lock' = t
    /\ SetTop(t, [Top(t) EXCEPT !.pc = "locked"])
    /\ UNCHANGED <<subscribers, received, handles, bus_calls, nonBusVars>>

\* EventBus.subscribe, lines 16-17.
Subscribe(t) ==
    /\ InBus(t, "subscribe", "locked")
    /\ subscribers' = [subscribers EXCEPT ![Top(t).topic] = Append(@, Top(t).cb)]
    /\ bus_lock' = 0
    /\ handles' = handles \cup {[topic |-> Top(t).topic, cb |-> Top(t).cb]}
    /\ threads' = [threads EXCEPT ![t] = Returned(@)]
    /\ UNCHANGED <<received, bus_calls, nonBusVars>>

\* EventBus._unsubscribe, lines 22-31.
Unsubscribe(t) ==
    /\ InBus(t, "unsubscribe", "locked")
    /\ subscribers' = [subscribers EXCEPT ![Top(t).topic] = RemoveFirst(@, Top(t).cb)]
    /\ bus_lock' = 0
    /\ threads' = [threads EXCEPT ![t] = Returned(@)]
    /\ UNCHANGED <<received, handles, bus_calls, nonBusVars>>

\* publish copying the list and going on to the for loop inside the with
\* block.
PublishCopyKeepsLock(t) ==
    /\ InBus(t, "publish", "locked")
    /\ SetTop(t, [Top(t) EXCEPT !.callbacks = subscribers[Top(t).topic],
                                !.pc = "deliver", !.i = 1])
    /\ UNCHANGED <<subscribers, bus_lock, received, handles, bus_calls, nonBusVars>>

\* EventBus.publish, lines 35-36: the list is copied under the lock and the
\* lock released.
PublishCopy(t) ==
    /\ InBus(t, "publish", "locked")
    /\ SetTop(t, [Top(t) EXCEPT !.callbacks = subscribers[Top(t).topic],
                                !.pc = "deliver", !.i = 1])
    /\ bus_lock' = 0
    /\ UNCHANGED <<subscribers, received, handles, bus_calls, nonBusVars>>

\* The for loop going over the bus's own list.
LiveRecipients(f) == subscribers[f.topic]

\* The list the for loop of line 37 goes over: the copy.
Recipients(f) == f.callbacks

\* The exception of a callback leaving publish, and every call around it.
Propagated(t, called) == threads' = [threads EXCEPT ![t] = <<>>]

\* Lines 38-42: the exception of a callback is caught and printed, and the
\* for loop goes on to the next callback.
Caught(t, called) == SetTop(t, [called EXCEPT !.i = @ + 1])

\* Lines 37-42: the next callback is called with the event.  An exception
\* it raises is caught; a callback that calls into the bus does so in the
\* publishing thread.
Deliver(t) ==
    /\ InBus(t, "publish", "deliver")
    /\ Top(t).i <= Len(Recipients(Top(t)))
    /\ LET f == Top(t)
           cb == Recipients(f)[f.i]
           called == [f EXCEPT !.invoked = Append(@, cb)]
           inside == [called EXCEPT !.pc = "in_callback"]
           nested(frame) == threads' = [threads EXCEPT ![t] =
                                Append(SubSeq(@, 1, Len(@) - 1), inside) \o <<frame>>]
       IN /\ received' = received \cup {[to |-> cb.client, topic |-> f.topic,
                                           about |-> f.event.client]}
          /\ CASE cb.does = "unsubscribe" ->
                    nested(Frame("unsubscribe", f.topic, cb, NoEvent))
               [] cb.does = "subscribe" ->
                    nested(Frame("subscribe", f.topic,
                                 [client |-> cb.client, does |-> "put"], NoEvent))
               [] cb.does = "publish" /\ f.event.type = "ORDER_UPDATE" ->
                    nested(Frame("publish", f.topic, NoCallback,
                                 OrderEvent(f.event.client, "ECHO")))
               [] cb.does = "raise" -> Caught(t, called)
               [] OTHER -> SetTop(t, [called EXCEPT !.i = @ + 1])
    /\ UNCHANGED <<subscribers, bus_lock, handles, bus_calls, nonBusVars>>

\* The for loop is over: publish returns.
PublishReturn(t) ==
    /\ InBus(t, "publish", "deliver")
    /\ Top(t).i > Len(Recipients(Top(t)))
    /\ threads' = [threads EXCEPT ![t] = Returned(@)]
    /\ UNCHANGED <<subscribers, bus_lock, received, handles, bus_calls, nonBusVars>>

\* A step of thread t inside the bus.
ThreadStep(t) ==
    \/ Acquire(t)
    \/ Subscribe(t)
    \/ Unsubscribe(t)
    \/ PublishCopy(t)
    \/ Deliver(t)
    \/ PublishReturn(t)

BusNext ==
    \/ \E t \in ThreadIds : CallSubscribe(t)
    \/ \E t \in ThreadIds : CallUnsubscribe(t)
    \/ \E t \in ThreadIds : CallPublish(t)
    \/ \E t \in ThreadIds : Acquire(t)
    \/ \E t \in ThreadIds : Subscribe(t)
    \/ \E t \in ThreadIds : Unsubscribe(t)
    \/ \E t \in ThreadIds : PublishCopy(t)
    \/ \E t \in ThreadIds : Deliver(t)
    \/ \E t \in ThreadIds : PublishReturn(t)

\* The bus under calls from MaxThreads threads, the orders left alone.
BusSpec == Init /\ [][BusNext]_vars

\* ------------------------------------------------ a risk check on its own
\* Stored risk limits: max_notional in units of NotionalUnit.
RiskLimits ==
    [blocked : BOOLEAN, trading_hours : TradingHoursStrings,
     max_notional : {30, DefaultMaxNotional},
     max_order_size : {20, DefaultMaxOrderSize}]

\* The order requests validate_order is given, by create_order and by
\* amend_order (whose Tmp may carry any qty the PATCH body had).
RiskRequests ==
    [clientId : ClientIds, type : {"LIMIT", "MARKET"}, qty : {0, 10, 25},
     price : {None} \cup {Some(p) : p \in LimitPrices}]

\* symbol_spec with and without a usable ref_price.
SymbolSpecs == {SymbolSpec, [ref_price |-> None]}

\* Times of day: 00:00:00, 09:00:00, 12:00:00, 16:00:00, 23:59:00, 23:59:30
\* and 23:59:59.
TimesOfDay == {0, 32400, 43200, 57600, 86340, 86370, 86399}

RiskArgs ==
    [req : RiskRequests, found : {None} \cup {Some(l) : l \in RiskLimits},
     symbol_spec : SymbolSpecs, now : TimesOfDay]

RiskInit ==
    /\ OmsIdle
    /\ BusIdle
    /\ risk_args \in {Some(a) : a \in RiskArgs}
    /\ risk_ret = None
    /\ ReconIdle
    /\ WsIdle

\* The handler resolves the limit and calls validate_order.
RiskCheck ==
    /\ risk_args # None
    /\ risk_ret = None
    /\ LET a == Val(risk_args)
       IN risk_ret' = Some(validate_order(a.req, ResolveLimit(a.found),
                                          a.symbol_spec, a.now))
    /\ UNCHANGED <<risk_args, nonRiskVars>>

RiskNext == RiskCheck

RiskSpec == RiskInit /\ [][RiskNext]_vars

\* ------------------------------------------------ internal reconciliation
abs(x) == IF x < 0 THEN 0 - x ELSE x

\* func.sum(Execution.exec_qty) over the executions of one order; an order
\* without executions has no row in exec_sums and gets 0.0.
RECURSIVE exec_sums(_)
exec_sums(rows) ==
    IF rows = <<>> THEN 0 ELSE Head(rows).exec_qty + exec_sums(Tail(rows))

\* inco_reasons with the test of the ledger left out.
inco_reasons_status_only(o, s) ==
    (IF o.status = "FILLED" /\ abs(o.cum_qty - o.qty) > 0
        THEN <<"STATUS_FILLED_BUT_CUM_QTY_NE_QTY">> ELSE <<>>)
    \o (IF o.status = "PARTIALLY_FILLED" /\ (o.cum_qty <= 0 \/ o.cum_qty >= o.qty)
        THEN <<"STATUS_PARTIAL_INCONSISTENT">> ELSE <<>>)
    \o (IF o.status # "FILLED" /\ abs(o.cum_qty - o.qty) <= 0 /\ o.qty > 0
        THEN <<"STATUS_NOT_FILLED_BUT_CUM_EQ_QTY">> ELSE <<>>)

\* Lines 31-45: the reasons found for order o, whose executions sum to s.
\* Quantities are whole numbers here, so |x| > 1e-9 is |x| > 0.
inco_reasons(o, s) ==
    (IF abs(o.cum_qty - s) > 0 THEN <<"CUM_QTY_MISMATCH">> ELSE <<>>)
    \o (IF o.status = "FILLED" /\ abs(o.cum_qty - o.qty) > 0
        THEN <<"STATUS_FILLED_BUT_CUM_QTY_NE_QTY">> ELSE <<>>)
    \o (IF o.status = "PARTIALLY_FILLED" /\ (o.cum_qty <= 0 \/ o.cum_qty >= o.qty)
        THEN <<"STATUS_PARTIAL_INCONSISTENT">> ELSE <<>>)
    \o (IF o.status # "FILLED" /\ abs(o.cum_qty - o.qty) <= 0 /\ o.qty > 0
        THEN <<"STATUS_NOT_FILLED_BUT_CUM_EQ_QTY">> ELSE <<>>)

\* Lines 30-54: the loop over the orders, from order id on.
RECURSIVE orders_inconsistent(_, _, _)
orders_inconsistent(tbl, execs, id) ==
    IF id > Len(tbl) THEN <<>>
    ELSE LET o == tbl[id]
             reasons == inco_reasons(o, exec_sums(execs[id]))
             item == [orderId |-> id, status |-> o.status, qty |-> o.qty,
                      cumQty |-> o.cum_qty, reasons |-> reasons]
         IN (IF reasons # <<>> THEN <<item>> ELSE <<>>)
            \o orders_inconsistent(tbl, execs, id + 1)

\* Lines 61-71: the net quantity of a client, summed over the join of
\* executions with orders (every order of the model is a BUY of one symbol).
RECURSIVE agg(_, _, _, _)
agg(tbl, execs, cid, id) ==
    IF id > Len(tbl) THEN 0
    ELSE (IF tbl[id].client_id = cid THEN exec_sums(execs[id]) ELSE 0)
         + agg(tbl, execs, cid, id + 1)

\* PositionsRepository.by_client: netQty of the client, by the same join.
by_client(tbl, execs, cid) == agg(tbl, execs, cid, 1)

\* Lines 77-95: the clients whose computed and stored net quantity differ.
positions_inconsistent(tbl, execs) ==
    LET clients == {tbl[id].client_id : id \in {i \in 1..Len(tbl) : execs[i] # <<>>}}
    IN {cid \in clients : abs(agg(tbl, execs, cid, 1) - by_client(tbl, execs, cid)) > 0}

reconcile_internal(tbl, execs) ==
    LET oi == orders_inconsistent(tbl, execs, 1)
        pi == positions_inconsistent(tbl, execs)
    IN [ok |-> oi = <<>> /\ pi = {}, orders_inconsistent |-> oi,
        positions_inconsistent |-> pi]

\* The rows and ledgers the audit may find, those written past the engine
\* included.
ReconRows ==
    [client_id : ClientIds, type : {"LIMIT"}, qty : {0, 10, 25},
     price : {Some(p) : p \in LimitPrices}, status : OrderStatus,
     cum_qty : {0, 10, 25}, avg_px : {None}, reject_reason : {NoReason}]

Ledgers ==
    {<<>>, <<Execution(10, 2000)>>, <<Execution(25, 2000)>>,
     <<Execution(10, 2000), Execution(15, 2000)>>}

ReconInit ==
    /\ \E n \in {1, 2} :
          /\ orders \in [1..n -> ReconRows]
          /\ executions \in [1..n -> Ledgers]
          /\ events = [i \in 1..n |-> <<>>]
          /\ risk_results = [i \in 1..n |-> Accept]
    /\ queue = <<>>
    /\ tasks = <<>>
    /\ worker_task = 0
    /\ creating = {}
    /\ amending = {}
    /\ cancels = 0
    /\ amends = 0
    /\ cancelRace = {}
    /\ http_errors = <<>>
    /\ BusIdle
    /\ RiskIdle
    /\ ReconIdle
    /\ WsIdle

\* reconcile_internal is run on the tables, given a session whose execute
\* returns their rows.
Reconcile ==
    /\ recon_report = None
    /\ recon_report' = Some(reconcile_internal(orders, executions))
    /\ UNCHANGED nonReconVars

ReconNext == Reconcile

ReconSpec == ReconInit /\ [][ReconNext]_vars

\* ------------------------------------------------ the WebSocket connection
\* An event is known by its number in the order of the on_event calls.
\* The connection after its first n events were queued and none sent yet,
\* for n near maxsize.
WsInit ==
    /\ OmsIdle
    /\ BusIdle
    /\ RiskIdle
    /\ ReconIdle
    /\ \E n \in {WsQueueMaxSize - 2, WsQueueMaxSize - 1, WsQueueMaxSize} :
          /\ ws_queue = [i \in 1..n |-> i]
          /\ ws_arrived = n
    /\ ws_pending = <<>>
    /\ ws_held = None
    /\ ws_sent = <<>>
    /\ ws_dropped = {}

\* Lines 26-49: the bus calls on_event, which schedules _put on the loop.
on_event ==
    /\ ws_arrived < WsQueueMaxSize + MaxWsEvents
    /\ ws_arrived' = ws_arrived + 1
    /\ ws_pending' = Append(ws_pending, ws_arrived + 1)
    /\ UNCHANGED <<ws_queue, ws_held, ws_sent, ws_dropped, nonWsVars>>

\* _put making room for the new event by dropping the oldest one queued.
WsPutDropsOldest ==
    /\ ws_pending # <<>>
    /\ LET evt == Head(ws_pending)
       IN IF Len(ws_queue) >= WsQueueMaxSize
          THEN /\ ws_dropped' = ws_dropped \cup {Head(ws_queue)}
               /\ ws_queue' = Append(Tail(ws_queue), evt)
          ELSE /\ ws_queue' = Append(ws_queue, evt)
               /\ UNCHANGED ws_dropped
    /\ ws_pending' = Tail(ws_pending)
    /\ UNCHANGED <<ws_held, ws_sent, ws_arrived, nonWsVars>>

\* Lines 29-48: the loop runs the oldest scheduled _put: the event is dropped
\* when the queue is full, queued otherwise.
WsPut ==
    /\ ws_pending # <<>>
    /\ LET evt == Head(ws_pending)
       IN IF Len(ws_queue) >= WsQueueMaxSize
          THEN /\ ws_dropped' = ws_dropped \cup {evt}
               /\ UNCHANGED ws_queue
          ELSE /\ ws_queue' = Append(ws_queue, evt)
               /\ UNCHANGED ws_dropped
    /\ ws_pending' = Tail(ws_pending)
    /\ UNCHANGED <<ws_held, ws_sent, ws_arrived, nonWsVars>>

\* Line 57: evt = await queue.get().
WsGet ==
    /\ ws_held = None
    /\ ws_queue # <<>>
    /\ Len(ws_sent) < MaxWsSends
    /\ ws_held' = Some(Head(ws_queue))
    /\ ws_queue' = Tail(ws_queue)
    /\ UNCHANGED <<ws_pending, ws_sent, ws_dropped, ws_arrived, nonWsVars>>

\* Line 58: await websocket.send_json(evt).
WsSend ==
    /\ ws_held # None
    /\ ws_sent' = Append(ws_sent, Val(ws_held))
    /\ ws_held' = None
    /\ UNCHANGED <<ws_queue, ws_pending, ws_dropped, ws_arrived, nonWsVars>>

WsNext ==
    \/ on_event
    \/ WsPut
    \/ WsGet
    \/ WsSend

WsSpec == WsInit /\ [][WsNext]_vars

\* ------------------------------------------------- requests on a long queue
\* The queue lengths at which an enqueue meets or comes close to maxsize.
NearFullLengths == {QueueMaxSize - 2, QueueMaxSize - 1, QueueMaxSize}

\* The state in which the worker task has ended on the Send of the first
\* order (SendRaise) and n cancel requests for that order have since been
\* enqueued, for n near maxsize.
QueueInit ==
    /\ \E payload \in OrderCreateRequests : orders = <<NewOrder(payload, "NEW", NoReason)>>
    /\ executions = << <<>> >>
    /\ events = << <<>> >>
    /\ \E n \in NearFullLengths : queue = [i \in 1..n |-> CancelOrderEvent(1)]
    /\ tasks = <<EndedTask("failed")>>
    /\ worker_task = 1
    /\ creating = {}
    /\ amending = {}
    /\ cancels = 0
    /\ amends = 0
    /\ cancelRace = {}
    /\ http_errors = <<>>
    /\ risk_results = <<Accept>>
    /\ BusIdle
    /\ RiskIdle
    /\ ReconIdle
    /\ WsIdle

\* The requests that enqueue a command, served while no worker task is live:
\* start() is called at application startup only, so nothing consumes the
\* queue.
QueueNext ==
    \/ CreateOrder
    \/ CreateEnqueue
    \/ CancelOrder

QueueSpec == QueueInit /\ [][QueueNext]_vars


\* ------------------------------------------------------- a vanished order
\* The id of an order whose row was deleted from the orders table, from
\* outside the application, after commands for it were enqueued: db.get
\* returns None for it (fix_gateway.py:92-93, 195-196).  No order the
\* handlers create gets this id.
VanishedId == MaxOrders + 1

\* The state in which a Send and a Cancel for the vanished order wait in the
\* queue and nothing else has happened.
VanishInit ==
    /\ orders = <<>>
    /\ executions = <<>>
    /\ events = <<>>
    /\ queue = <<SendOrderEvent(VanishedId), CancelOrderEvent(VanishedId)>>
    /\ tasks = <<>>
    /\ worker_task = 0
    /\ creating = {}
    /\ amending = {}
    /\ cancels = 0
    /\ amends = 0
    /\ cancelRace = {}
    /\ http_errors = <<>>
    /\ risk_results = <<>>
    /\ BusIdle
    /\ RiskIdle
    /\ ReconIdle
    /\ WsIdle

VanishSpec == VanishInit /\ [][Next]_vars

\* ================================================================ claims
RECURSIVE SumExecQty(_)
SumExecQty(execs) ==
    IF execs = <<>> THEN 0 ELSE Head(execs).exec_qty + SumExecQty(Tail(execs))

\* start() has not been called yet, or stop() has ended a worker task (and
\* with it the command the task was processing).
WorkerStopped == worker_task = 0 \/ \E w \in TaskIds : tasks[w].state = "cancelled"

\* No worker is processing a command, none was ended by stop(), and the
\* queue is empty: every command enqueued so far was processed to its end or
\* ended by an exception of its own.
AllProcessed ==
    /\ queue = <<>>
    /\ creating = {}
    /\ \A w \in TaskIds : tasks[w].state \in {"idle", "failed"}

C3_ExecSumIsCumQty ==
    \A id \in OrderIdSet : SumExecQty(executions[id]) = orders[id].cum_qty

\* C3 witness: an order filled in two lots.
C3_Witness ==
    \E id \in OrderIdSet :
        /\ Len(executions[id]) = 2
        /\ orders[id].cum_qty > executions[id][1].exec_qty

C5_NewEventuallyLeft ==
    \A id \in 1..MaxOrders :
        [](id \in OrderIdSet /\ orders[id].status = "NEW"
             => <>(WorkerStopped \/ (id \in OrderIdSet /\ orders[id].status # "NEW")))

\* C6: an order whose Send is in the queue eventually has a terminal status,
\* unless stop() ends the worker.
C6_SentEventuallyTerminal ==
    \A id \in 1..MaxOrders :
        []((\E i \in 1..Len(queue) : queue[i] = SendOrderEvent(id))
             => <>(WorkerStopped \/ (id \in OrderIdSet /\ orders[id].status \in Terminal)))

\* C7: a status that is REJECTED, FILLED or CANCELED is never changed by any
\* step.
C7_TerminalIsFinal ==
    [][\A id \in OrderIdSet :
          orders[id].status \in Terminal => orders'[id].status = orders[id].status]_vars

\* C7 witness: a Send was processed for an order a Cancel had already
\* canceled (the Cancel overtook the Send between create_order's commit and
\* its enqueue), and the order is still CANCELED.
C7_Witness ==
    /\ AllProcessed
    /\ \E id \in OrderIdSet :
          /\ orders[id].status = "CANCELED"
          /\ events[id] = <<[type |-> "ORDER_UPDATE", status |-> "CANCELED"]>>
          /\ \A w \in TaskIds : tasks[w].state = "idle"

\* The lifecycle edges.
LifecycleEdges ==
    {<<"NEW", "PENDING_SEND">>, <<"PENDING_SEND", "SENT">>, <<"SENT", "REJECTED">>,
     <<"SENT", "PARTIALLY_FILLED">>, <<"SENT", "FILLED">>,
     <<"PARTIALLY_FILLED", "FILLED">>}
    \cup {<<st, "CANCELED">> : st \in OrderStatus \ Terminal}

\* C8: every change of an order's status is a lifecycle edge.
C8_OnlyLifecycleEdges ==
    [][\A id \in OrderIdSet :
          orders'[id].status # orders[id].status
             => <<orders[id].status, orders'[id].status>> \in LifecycleEdges]_vars

\* C8 witness: an order that went NEW, PENDING_SEND, SENT, PARTIALLY_FILLED,
\* FILLED, and a Cancel for it was then processed.
C8_Witness ==
    /\ AllProcessed
    /\ cancels > 0
    /\ Len(orders) = 1
    /\ [i \in 1..Len(events[1]) |-> events[1][i].status]
          = <<"PENDING_SEND", "SENT", "PARTIALLY_FILLED", "FILLED">>

\* C9: a worker that processes Cancel(id) while the order is FILLED,
\* CANCELED or REJECTED ends the command in that step and changes no order,
\* no Execution and publishes no event.
C9_CancelAfterTerminalIsNoop ==
    [][\A w \in TaskIds :
          (/\ tasks[w].state = "busy" /\ tasks[w].kind = "Cancel" /\ tasks[w].pc = "get"
           /\ tasks[w].oid \in OrderIdSet
           /\ orders[tasks[w].oid].status \in Terminal
           /\ tasks'[w] # tasks[w])
          => /\ tasks'[w].state # "busy"
             /\ orders' = orders
             /\ executions' = executions
             /\ events' = events]_vars

\* C9 witness: a Cancel was processed for an order the venue had rejected,
\* and the order and its events are those of the reject.
C9_Witness ==
    /\ AllProcessed
    /\ cancels > 0
    /\ Len(orders) = 1
    /\ orders[1].status = "REJECTED"
    /\ orders[1].reject_reason = "FIX_REJECT"
    /\ Len(events[1]) = 4
    /\ executions[1] = <<>>

\* C10: at most one worker task is live, so at most one command is being
\* processed.
C10_OneCommandAtATime ==
    /\ Cardinality({w \in TaskIds : ~Done(tasks[w])}) <= 1
    /\ Cardinality({w \in TaskIds : tasks[w].state = "busy"}) <= 1

\* C10 witness: after start(), stop(), start() the worker is in the first
\* latency of a Send while another command waits in the queue.
C10_Witness ==
    /\ Len(tasks) = 2
    /\ tasks[1].state = "cancelled"
    /\ tasks[2].state = "busy" /\ tasks[2].pc = "sleep1"
    /\ queue # <<>>

\* An enqueue was attempted in the step: enqueue_send ends a create_order
\* call, enqueue_cancel ends a cancel_order call for a known order.
EnqueueAttempted ==
    \/ creating' # creating /\ Len(orders') = Len(orders)
    \/ cancels' # cancels
          /\ ~(http_errors' # http_errors /\ http_errors'[Len(http_errors')].code = 404)

\* C11: the queue never holds more than maxsize commands, and an enqueue on
\* a queue that holds maxsize commands leaves the queue as it is and is
\* answered with the capacity error.
C11_FullQueueRejects ==
    [][/\ Len(queue') <= QueueMaxSize
       /\ (EnqueueAttempted /\ Len(queue) >= QueueMaxSize)
             => /\ queue' = queue
                /\ Len(http_errors') = Len(http_errors) + 1
                /\ http_errors'[Len(http_errors')].code = 500]_vars

\* C11 witness: a create_order and a cancel_order were both answered with
\* the capacity error and the queue holds maxsize commands.
C11_Witness ==
    /\ Len(queue) = QueueMaxSize
    /\ \E i, j \in 1..Len(http_errors) :
          /\ http_errors[i] = CapacityError("create_order", 2)
          /\ http_errors[j].call = "cancel_order" /\ http_errors[j].code = 500

\* A Send for the order is about to be enqueued, is queued, or is being
\* processed.
SendPending(id) ==
    \/ id \in creating
    \/ \E i \in 1..Len(queue) : queue[i] = SendOrderEvent(id)
    \/ \E w \in TaskIds :
          tasks[w].state = "busy" /\ tasks[w].kind = "Send" /\ tasks[w].oid = id

\* C12: an order that validate_order rejected at creation is persisted
\* REJECTED with the reason validate_order gave (SYMBOL_BLOCKED whenever the
\* limit is blocked, for every well-formed request), no Send for it is ever
\* pending, and it has no Execution.
C12_RiskRejectedNeverSent ==
    /\ \A payload \in OrderCreateRequests, now \in NowValues :
          validate_order(payload, BlockedLimit, SymbolSpec, now) = Reject("SYMBOL_BLOCKED")
    /\ \A id \in OrderIdSet :
          ~risk_results[id].ok
             => /\ orders[id].status = "REJECTED"
                /\ orders[id].reject_reason = risk_results[id].reason
                /\ orders[id].reject_reason # NoReason
                /\ ~SendPending(id)
                /\ executions[id] = <<>>

\* C12 witness: an order rejected for a blocked limit, after a Cancel for
\* it and the Send of another order (now FILLED) were processed.
C12_Witness ==
    /\ AllProcessed
    /\ Len(orders) = 2
    /\ ~risk_results[1].ok /\ orders[1].reject_reason = "SYMBOL_BLOCKED"
    /\ orders[2].status = "FILLED"
    /\ cancels > 0 /\ http_errors = <<>>

\* An amend_order call read its order in the step.
AmendCalled == amends' # amends

\* The call was let through to the risk re-validation.
AmendAccepted == amending' # amending

\* The order id the call of the step was made for (0 when the step shows
\* none).
AmendTarget ==
    IF AmendAccepted THEN (CHOOSE a \in amending' \ amending : TRUE).id
    ELSE IF http_errors' # http_errors THEN http_errors'[Len(http_errors')].id
    ELSE 0

NotEditableError(id) ==
    [call |-> "amend_order", id |-> id, code |-> 400,
     detail |-> "Order not editable in current status"]

\* C13: an amend_order call for an order whose status is PENDING_SEND, SENT,
\* FILLED, REJECTED or CANCELED is answered with the not-editable error and
\* goes no further.
C13_NotEditableFails ==
    [][(/\ AmendCalled
        /\ AmendTarget \in OrderIdSet
        /\ orders[AmendTarget].status
              \in {"PENDING_SEND", "SENT", "FILLED", "REJECTED", "CANCELED"})
       => /\ ~AmendAccepted
          /\ http_errors' = Append(http_errors, NotEditableError(AmendTarget))]_vars

\* C13 witness: amend_order calls were refused as not editable, the last
\* one for an order the worker has SENT and not yet filled.
C13_Witness ==
    /\ http_errors # <<>>
    /\ LET e == http_errors[Len(http_errors)]
       IN /\ e = NotEditableError(e.id)
          /\ orders[e.id].status = "SENT"
          /\ amending = {}
          /\ \E w \in TaskIds : tasks[w].state = "busy" /\ tasks[w].oid = e.id

\* An amend_order call committed in the step (its ORDER_UPDATE is published
\* with the commit).
AmendCommitted == amending' # amending /\ ~AmendCalled /\ events' # events

\* The call that ended in the step.
AmendEnded == CHOOSE a \in amending \ amending' : TRUE

C15_AmendChangesQtyPriceOnly ==
    [][AmendCommitted
       => /\ executions' = executions
          /\ Len(orders') = Len(orders)
          /\ \A id \in OrderIdSet :
                /\ orders'[id].status = orders[id].status
                /\ orders'[id].cum_qty = orders[id].cum_qty
                /\ orders'[id].avg_px = orders[id].avg_px
                /\ orders'[id].reject_reason = orders[id].reject_reason
                /\ id # AmendEnded.id => orders'[id] = orders[id]]_vars

\* C15 witness: an order created with qty 10 was amended to qty 25 after its
\* first lot of 4, with the worker between the two lots, and the amend has
\* published its ORDER_UPDATE.
C15_Witness ==
    \E id \in OrderIdSet :
        /\ orders[id].qty = 25 /\ orders[id].cum_qty = 4
        /\ orders[id].status = "PARTIALLY_FILLED"
        /\ Len(executions[id]) = 1
        /\ amending = {} /\ http_errors = <<>>
        /\ Len(events[id]) = 4

\* An amend_order call ended with an error response in the step.
AmendFailed ==
    /\ Len(http_errors') = Len(http_errors) + 1
    /\ http_errors'[Len(http_errors')].call = "amend_order"

\* C16: a step in which an amend_order call ends with an error response
\* (unknown order, not editable, no fields, qty below filled, risk reject)
\* changes no order and no Execution and publishes no event.
C16_FailedAmendChangesNothing ==
    [][AmendFailed => orders' = orders /\ executions' = executions /\ events' = events]_vars

\* C16 witness: an amend of qty that passed the checks on a partially
\* filled order was refused by the risk re-validation.
C16_Witness ==
    /\ http_errors # <<>>
    /\ LET e == http_errors[Len(http_errors)]
       IN /\ e.call = "amend_order" /\ e.code = 400 /\ e.detail = "SYMBOL_BLOCKED"
          /\ orders[e.id].status = "PARTIALLY_FILLED"
          /\ orders[e.id].qty = 10
    /\ amends > 0 /\ amending = {}

\* How far along the lifecycle a status is: every lifecycle edge goes to a
\* higher rank, and the terminal statuses are never left.
StatusRank(st) ==
    CASE st = "NEW" -> 0
      [] st = "PENDING_SEND" -> 1
      [] st = "SENT" -> 2
      [] st = "PARTIALLY_FILLED" -> 3
      [] OTHER -> 4

\* C17: among the events published for an order, none carries a status
\* older than the status of an event published before it.
C17_EventsFollowTransitions ==
    \A id \in OrderIdSet :
        \A i, j \in 1..Len(events[id]) :
            i < j => StatusRank(events[id][i].status) <= StatusRank(events[id][j].status)


\* The publish calls that have taken their copy of the list, on any stack.
Publishing ==
    {f \in UNION {{threads[t][k] : k \in 1..Len(threads[t])} : t \in ThreadIds} :
        f.op = "publish" /\ f.pc \in {"deliver", "in_callback"}}

\* C18: an event published about an order of client A is delivered only to
\* subscribers of topic orders.A; a subscriber of orders.B, B different
\* from A, never receives an event about an order of client A.
C18_TopicIsolation ==
    \A r \in received :
        /\ r.to = r.about
        /\ r.topic = "orders." \o r.about

\* An event about an order of A has been delivered while B had a subscriber.
C18_Witness ==
    /\ \E f \in Publishing : f.event.client = "A" /\ f.invoked # <<>>
    /\ subscribers["orders.B"] # <<>>
    /\ \E r \in received : r.about = "A"

IsPrefix(s1, s2) == Len(s1) <= Len(s2) /\ s1 = SubSeq(s2, 1, Len(s1))

\* C19: publish invokes exactly the callbacks registered on the topic when
\* it took its copy: while it delivers, the callbacks it has called are the
\* first ones of that list, in order, and when it returns they are the
\* whole list, whatever was subscribed or unsubscribed meanwhile.
C19_SnapshotDelivery ==
    [][\A t \in ThreadIds : \A k \in 1..Len(threads[t]) :
          LET f == threads[t][k]
          IN (f.op = "publish" /\ f.pc \in {"deliver", "in_callback"}) =>
                /\ IsPrefix(f.invoked, f.callbacks)
                /\ Len(threads'[t]) < k => f.invoked = f.callbacks]_vars

\* A publish has called every callback of its copy, and the topic's list
\* is no longer what it copied.
C19_Witness ==
    \E f \in Publishing :
        /\ f.pc = "deliver"
        /\ Len(f.callbacks) >= 2
        /\ f.invoked = f.callbacks
        /\ subscribers[f.topic] # f.callbacks

\* Thread t is in a call and cannot take a step.
Blocked(t) == threads[t] # <<>> /\ ~ENABLED ThreadStep(t)

\* C20: the bus lock is never held while a callback runs (whoever holds it
\* is inside a with block, about to release it), so no call into the bus,
\* from a callback or from another thread, is ever stuck: a thread that
\* cannot step waits for a lock whose holder can.
C20_NoDeadlock ==
    /\ bus_lock # 0 => InBus(bus_lock, Top(bus_lock).op, "locked")
    /\ \A t \in ThreadIds :
          Blocked(t) => bus_lock \notin {0, t} /\ ~Blocked(bus_lock)

\* A callback called by publish is inside a call into the bus, holding the
\* lock, while another thread waits for the lock.
C20_Witness ==
    \E t \in ThreadIds, u \in ThreadIds :
        /\ Len(threads[t]) >= 2
        /\ bus_lock = t
        /\ u # t
        /\ Blocked(u)


Raises(cb) == cb.does = "raise"

\* C21: a callback that raises during a publish does not keep the event
\* from any other subscriber of the snapshot, and its error does not reach
\* the publisher: a publish whose snapshot holds a raising callback ends
\* only by its for loop running out, with every callback of the snapshot
\* called, and while it delivers the thread stays in that publish.
C21_RaisingCallbackIsolated ==
    [][\A t \in ThreadIds : \A k \in 1..Len(threads[t]) :
          LET f == threads[t][k]
          IN (/\ f.op = "publish"
              /\ f.pc \in {"deliver", "in_callback"}
              /\ \E j \in 1..Len(f.callbacks) : Raises(f.callbacks[j])
              /\ Len(threads'[t]) < k)
             => /\ f.pc = "deliver"
                /\ f.i = Len(f.callbacks) + 1
                /\ \A j \in 1..Len(f.callbacks) :
                      j <= Len(f.invoked) /\ f.invoked[j] = f.callbacks[j]]_vars

\* A publish has called a raising callback first and then another
\* subscriber, and is about to return.
C21_Witness ==
    \E f \in Publishing :
        /\ f.pc = "deliver"
        /\ Len(f.callbacks) >= 2
        /\ Raises(f.callbacks[1])
        /\ ~Raises(f.callbacks[2])
        /\ f.i = Len(f.callbacks) + 1
        /\ Len(f.invoked) = Len(f.callbacks)


\* The limit a risk check was made against, and its result.
CheckedLimit == ResolveLimit(Val(risk_args).found)
CheckResult == Val(risk_ret)

\* The reasons in the order of the checks.
CheckOrder ==
    <<"INVALID_QTY", "PRICE_REQUIRED", "PRICE_NOT_ALLOWED", "SYMBOL_BLOCKED",
      "OUTSIDE_TRADING_HOURS", "MISSING_REFERENCE_PRICE",
      "NOTIONAL_LIMIT_EXCEEDED", "ORDER_SIZE_LIMIT_EXCEEDED">>

\* Check k fails on the arguments a, against limit.
CheckFails(k, a, limit) ==
    LET hours == ParsedTradingHours[limit.trading_hours]
    IN CASE k = 1 -> a.req.qty <= 0
         [] k = 2 -> a.req.type = "LIMIT" /\ a.req.price = None
         [] k = 3 -> a.req.type = "MARKET" /\ a.req.price # None
         [] k = 4 -> limit.blocked
         [] k = 5 -> a.now < hours[1] \/ a.now > hours[2]
         [] k = 6 -> a.req.price = None /\ a.symbol_spec.ref_price = None
         [] k = 7 -> /\ ~(a.req.price = None /\ a.symbol_spec.ref_price = None)
                     /\ LET px == IF a.req.price = None
                                   THEN Val(a.symbol_spec.ref_price)
                                   ELSE Val(a.req.price)
                        IN ExceedsNotional(a.req.qty * px, limit.max_notional)
         [] k = 8 -> a.req.qty > limit.max_order_size

FailingChecks(a, limit) == {k \in 1..Len(CheckOrder) : CheckFails(k, a, limit)}

\* C22: validate_order returns the reason of the first failing check in
\* the order INVALID_QTY, PRICE_REQUIRED / PRICE_NOT_ALLOWED,
\* SYMBOL_BLOCKED, OUTSIDE_TRADING_HOURS, MISSING_REFERENCE_PRICE,
\* NOTIONAL_LIMIT_EXCEEDED, ORDER_SIZE_LIMIT_EXCEEDED, and accepts, with no
\* reason, exactly when every check passes.
C22_FirstFailingCheck ==
    risk_ret # None =>
        LET failing == FailingChecks(Val(risk_args), CheckedLimit)
        IN IF failing = {} THEN CheckResult = [ok |-> TRUE, reason |-> NoReason]
           ELSE LET first == CHOOSE k \in failing : \A j \in failing : k <= j
                IN CheckResult = [ok |-> FALSE, reason |-> CheckOrder[first]]

\* A request that fails both the notional and the size check was rejected.
C22_Witness ==
    /\ risk_ret # None
    /\ {7, 8} \subseteq FailingChecks(Val(risk_args), CheckedLimit)
    /\ CheckResult.reason = "NOTIONAL_LIMIT_EXCEEDED"

\* C23: when the lookup finds no RiskLimit record, an order with qty > 0, a
\* price consistent with its type, and size and notional under the default
\* caps is accepted at every time of day.
C23_DefaultNeverBlocks ==
    (/\ risk_ret # None
     /\ Val(risk_args).found = None
     /\ Val(risk_args).symbol_spec = SymbolSpec
     /\ Val(risk_args).req.qty > 0
     /\ (Val(risk_args).req.type = "LIMIT") = (Val(risk_args).req.price # None))
    => CheckResult.ok

\* th is "HH:MM-HH:MM": two digits, a colon, two digits, twice, with a
\* hyphen between.
WellFormedHours(th) ==
    /\ Len(th) = 11
    /\ \A i \in {1, 2, 4, 5, 7, 8, 10, 11} : IsDigit(th[i])
    /\ th[3] = ":" /\ th[6] = "-" /\ th[9] = ":"

\* C24: when the limit's trading-hours string is not a well-formed
\* "HH:MM-HH:MM" value, validate_order never accepts, whatever the time of
\* day.
C24_MalformedHoursRejects ==
    (/\ risk_ret # None
     /\ Val(risk_args).found # None
     /\ ~WellFormedHours(CheckedLimit.trading_hours))
    => ~CheckResult.ok


C26_AvgPxIffFilled ==
    \A id \in OrderIdSet : (orders[id].avg_px # None) <=> (orders[id].cum_qty > 0)

\* One order is partly filled and has its average price, another is not
\* filled at all.
C26_Witness ==
    \E id \in OrderIdSet, other \in OrderIdSet :
        /\ orders[id].status = "PARTIALLY_FILLED"
        /\ orders[id].cum_qty > 0
        /\ orders[id].avg_px # None
        /\ orders[other].cum_qty = 0
        /\ orders[other].avg_px = None


\* The report of the reconciliation, and its item for order id.
Report == Val(recon_report)
Listed(id) == \E k \in 1..Len(Report.orders_inconsistent) :
                  Report.orders_inconsistent[k].orderId = id
ItemOf(id) == Report.orders_inconsistent[
                  CHOOSE k \in 1..Len(Report.orders_inconsistent) :
                      Report.orders_inconsistent[k].orderId = id]

LedgerMismatch(id) == orders[id].cum_qty # SumExecQty(executions[id])

StatusIncoherent(id) ==
    LET o == orders[id]
    IN \/ o.status = "FILLED" /\ o.cum_qty # o.qty
       \/ o.status = "PARTIALLY_FILLED" /\ ~(0 < o.cum_qty /\ o.cum_qty < o.qty)
       \/ o.status \notin {"FILLED", "PARTIALLY_FILLED"} /\ o.qty > 0 /\ o.cum_qty = o.qty

\* C27: reconcile lists an order in orders_inconsistent exactly when its
\* cum_qty differs from the sum of its executions (and then with the reason
\* CUM_QTY_MISMATCH) or its status is incoherent with its quantities; a
\* fresh order without executions is not listed; ok is true iff both
\* result lists are empty.
C27_ReconcileListsExactly ==
    recon_report # None =>
        /\ \A id \in OrderIdSet :
              /\ Listed(id) <=> (LedgerMismatch(id) \/ StatusIncoherent(id))
              /\ LedgerMismatch(id) <=>
                    (Listed(id) /\ \E k \in 1..Len(ItemOf(id).reasons) :
                                      ItemOf(id).reasons[k] = "CUM_QTY_MISMATCH")
              /\ (/\ orders[id].status = "NEW"
                  /\ orders[id].qty > 0
                  /\ orders[id].cum_qty = 0
                  /\ executions[id] = <<>>) => ~Listed(id)
        /\ Report.ok <=> (/\ Report.orders_inconsistent = <<>>
                          /\ Report.positions_inconsistent = {})

\* The report lists an order for an execution its cum_qty does not reflect,
\* and no other reason, next to a fresh order it does not list.
C27_Witness ==
    /\ recon_report # None
    /\ Len(orders) = 2
    /\ orders[1].status = "NEW" /\ orders[1].cum_qty = 0 /\ executions[1] # <<>>
    /\ Listed(1)
    /\ ItemOf(1).reasons = <<"CUM_QTY_MISMATCH">>
    /\ orders[2].status = "NEW" /\ orders[2].qty > 0 /\ executions[2] = <<>>
    /\ ~Listed(2)
    /\ ~Report.ok


\* The events in s are in the order they arrived in.
InArrivalOrder(s) == \A i \in 1..(Len(s) - 1) : s[i] < s[i + 1]

\* C28: the delivery queue of a connection never holds more than 1000
\* events; an event that arrives while it is full is dropped, the queued
\* events are kept, and the events are sent in the order they arrived in.
C28_WsQueueDropsNewest ==
    [][/\ Len(ws_queue) <= 1000
       /\ Len(ws_queue') <= 1000
       /\ (Len(ws_pending') < Len(ws_pending) /\ Len(ws_queue) = 1000) =>
              /\ ws_queue' = ws_queue
              /\ ws_dropped' = ws_dropped \cup {Head(ws_pending)}
       /\ ws_dropped' \cap {ws_queue'[i] : i \in 1..Len(ws_queue')} = {}
       /\ InArrivalOrder(ws_sent' \o ws_held' \o ws_queue')]_vars

\* An event was dropped at a full queue, the first event queued has been
\* sent, and the queue is full again.
C28_Witness ==
    /\ ws_dropped # {}
    /\ ws_sent # <<>>
    /\ ws_sent[1] = 1
    /\ Len(ws_queue) = WsQueueMaxSize


\* A cancel request was served in the step.
CancelCalled == cancels' # cancels

\* The step answered a request with the not-found error for order id.
NotFoundAnswered(id) ==
    /\ Len(http_errors') = Len(http_errors) + 1
    /\ http_errors'[Len(http_errors')].call = "cancel_order"
    /\ http_errors'[Len(http_errors')].id = id
    /\ http_errors'[Len(http_errors')].code = 404

\* C29: a cancel request for an order id that does not exist is answered
\* with a not-found error, enqueues no command and changes no state: a
\* cancel request enqueues a Cancel only for an order of the table, and one
\* that is neither enqueued nor refused for capacity names an unknown id,
\* gets the 404 and leaves the tables, the queue and the worker as they are.
C29_CancelUnknownIsNotFound ==
    [][CancelCalled =>
          /\ \A i \in 1..Len(queue') :
                queue'[i].kind = "Cancel" => queue'[i].order_id \in OrderIdSet
          /\ (queue' = queue /\ ~QueueFull(queue)) =>
                /\ \E id \in (1..MaxOrders) \ OrderIdSet : NotFoundAnswered(id)
                /\ orders' = orders
                /\ executions' = executions
                /\ events' = events
                /\ tasks' = tasks
                /\ worker_task' = worker_task
          /\ queue' # queue => http_errors' = http_errors]_vars

\* A cancel request for an id no order has was answered 404 while another
\* order exists and nothing is queued for the unknown id.
C29_Witness ==
    /\ Len(orders) = 1
    /\ \E k \in 1..Len(http_errors) :
          http_errors[k] = [call |-> "cancel_order", id |-> 2, code |-> 404,
                            detail |-> "Order not found"]
    /\ \A i \in 1..Len(queue) : queue[i].order_id # 2


\* C30: amend's read-validate-write is serialized against the worker: when
\* an amend commits, the row is as the amend read it (no worker step on the
\* order came in between), its status is still NEW or PARTIALLY_FILLED and
\* the new qty is >= the persisted cum_qty.
C30_AmendSerialized ==
    [][AmendCommitted =>
          /\ orders[AmendEnded.id] = AmendEnded.read
          /\ orders[AmendEnded.id].status \in {"NEW", "PARTIALLY_FILLED"}
          /\ orders'[AmendEnded.id].qty >= orders[AmendEnded.id].cum_qty]_vars

\* C31: every command accepted into the queue is eventually dequeued, unless
\* stop() ends the worker: no fault raised while a command is processed ends
\* the worker task or leaves later commands in the queue.
C31_QueuedEventuallyProcessed ==
    \A id \in 1..MaxOrders :
        []((\E i \in 1..Len(queue) : queue[i].order_id = id)
             => <>(WorkerStopped
                    \/ ~\E i \in 1..Len(queue) : queue[i].order_id = id))

\* C32: when the worker processes Send(id) for an order whose status is
\* REJECTED, FILLED or CANCELED, the command is discarded: the task goes back
\* to the queue, the order's status, cum_qty and Executions are unchanged and
\* no event is published.
C32_SendOnTerminalDiscarded ==
    [][\A w \in TaskIds :
          ( /\ Running(w, "Send", "get")
            /\ tasks[w].oid \in OrderIdSet
            /\ orders[tasks[w].oid].status \in Terminal
            /\ tasks'[w] # tasks[w]
            /\ tasks'[w].state # "cancelled" )
          => /\ tasks'[w] = IdleTask
             /\ orders' = orders
             /\ executions' = executions
             /\ events' = events]_vars

\* C33: every order persisted with status NEW has a Send for it about to be
\* enqueued, waiting in the queue or being processed.  No order exists at
\* the start, so it is stated on the steps: an order is NEW after a step
\* only with its Send pending, when it was created by the step or had its
\* Send pending before it; in particular the end of a create_order call
\* leaves the Send of its NEW order in the queue.
C33_NewOrderHasSendPending ==
    [][\A id \in 1..Len(orders') :
          ( /\ orders'[id].status = "NEW"
            /\ (id \notin OrderIdSet \/ SendPending(id)) )
          => SendPending(id)']_vars

Published(id) == SubSeq(events'[id], Len(events[id]) + 1, Len(events'[id]))

\* What the worker publishes for a transition to the status: one
\* ORDER_UPDATE, and for the venue reject one ORDER_REJECT after it.
TransitionEvents(st) ==
    <<[type |-> "ORDER_UPDATE", status |-> st]>>
    \o (IF st = "REJECTED" THEN <<[type |-> "ORDER_REJECT", status |-> st]>> ELSE <<>>)

\* C35: a step in which the worker persists a status transition of an order
\* publishes, before anything else happens to the order, exactly one
\* ORDER_UPDATE carrying the persisted status (and for a venue reject one
\* ORDER_REJECT after it); a step of the worker that persists no transition
\* of the order publishes nothing for it.
C35_TransitionsPublishedOnce ==
    [][\A id \in OrderIdSet :
          /\ orders'[id].status # orders[id].status
                => Published(id) = TransitionEvents(orders'[id].status)
          /\ (tasks' # tasks /\ orders'[id].status = orders[id].status)
                => Published(id) = <<>>]_vars

\* C35 witness: an order taken to the venue reject and another one partially
\* filled and then canceled, each with the events of its transitions and no
\* others.
C35_Witness ==
    \E id, id2 \in OrderIdSet :
        /\ orders[id].status = "REJECTED"
        /\ events[id] = TransitionEvents("PENDING_SEND") \o TransitionEvents("SENT")
                           \o TransitionEvents("REJECTED")
        /\ orders[id2].status = "CANCELED"
        /\ events[id2] = TransitionEvents("PENDING_SEND") \o TransitionEvents("SENT")
                            \o TransitionEvents("PARTIALLY_FILLED")
                            \o TransitionEvents("CANCELED")

\* The command task w holds, as the queue holds commands.
Held(w) == [kind |-> tasks[w].kind, order_id |-> tasks[w].oid]

\* C36: commands are dequeued and processed in the order in which their
\* enqueues succeeded.  The queue changes only by an enqueue adding one
\* command behind all the others, or by an idle worker task taking the
\* command in front of all the others to process it while no other task is
\* processing one.
C36_QueueIsFifo ==
    [][queue' # queue
          => \/ \E evt \in {SendOrderEvent(id) : id \in OrderIdSet}
                            \cup {CancelOrderEvent(id) : id \in OrderIdSet} :
                   /\ queue' = Append(queue, evt)
                   /\ tasks' = tasks
             \/ /\ queue # <<>>
                /\ queue' = Tail(queue)
                /\ \E w \in TaskIds :
                      /\ tasks[w].state = "idle"
                      /\ tasks'[w].state = "busy"
                      /\ tasks'[w].pc = "get"
                      /\ Held(w)' = Head(queue)
                      /\ \A v \in TaskIds \ {w} :
                            tasks'[v] = tasks[v] /\ tasks[v].state # "busy"]_vars

\* C36 witness: the Send of an order and, enqueued behind it, its Cancel
\* and the Send of the other order; the worker task holds the first Send and
\* the other two commands wait in the order of their enqueues.
C36_Witness ==
    /\ 1 \in cancelRace
    /\ \E w \in TaskIds : Running(w, "Send", "get") /\ tasks[w].oid = 1
    /\ queue = <<CancelOrderEvent(1), SendOrderEvent(2)>>

\* C37: when the worker processes a Send or a Cancel for an order id that is
\* absent from the store, the command is discarded: no order or Execution
\* is created or changed, no event is published, and the task goes back to
\* the queue for the next command.
C37_AbsentOrderDiscarded ==
    [][\A w \in TaskIds :
          ( /\ tasks[w].state = "busy"
            /\ tasks[w].pc = "get"
            /\ tasks[w].oid \notin OrderIdSet
            /\ tasks'[w] # tasks[w]
            /\ tasks'[w].state # "cancelled" )
          => /\ tasks'[w] = IdleTask
             /\ orders' = orders
             /\ executions' = executions
             /\ events' = events]_vars

\* C37 witness: the Send and the Cancel for the vanished order were both
\* processed (no stop() took either from the worker), and the worker task
\* that discarded them is now processing the Send of an order created
\* later.
C37_Witness ==
    /\ \A i \in 1..Len(queue) : queue[i].order_id # VanishedId
    /\ Len(tasks) = 1
    /\ tasks[1].state = "busy"
    /\ tasks[1].kind = "Send"
    /\ tasks[1].oid \in OrderIdSet
    /\ tasks[1].pc = "sleep1"

AfterUnsubscribe(subs, h) == [subs EXCEPT ![h.topic] = RemoveFirst(@, h.cb)]

\* C39: the function returned by subscribe is idempotent: in every state of
\* the bus, calling it a second time leaves the subscribers as the first
\* call left them, so it takes away no other registration.
C39_UnsubscribeIdempotent ==
    \A h \in handles :
        AfterUnsubscribe(AfterUnsubscribe(subscribers, h), h)
            = AfterUnsubscribe(subscribers, h)


====
